---- MODULE Spec2Model ----
(***************************************************************************)
(* State-machine model of src/src/main.cpp (ESP32-CAM meter reader):       *)
(* setup(), reconnectMQTT(), captureAndSend() and loop(), run by the one   *)
(* Arduino thread.  pc is the position of that thread; the transport link, *)
(* the camera driver and the passing of time are the environment.          *)
(*                                                                         *)
(* millis() is an unsigned 32-bit millisecond counter.  The model reads    *)
(* the clock in ticks of MsPerTick milliseconds and keeps ClockBits bits   *)
(* of it, so that the counter wraps inside the explored state space; all   *)
(* arithmetic on clock values is modulo Wrap, as unsigned long arithmetic  *)
(* is modulo 2^32 in the source.                                           *)
(***************************************************************************)
EXTENDS Integers, Naturals, FiniteSets, Sequences, TLC

\* ---------------------------------------------------------------- bounds
ClockBits == 3
MsPerTick == 100000
MaxElapse == 2
MaxFails == 3
MaxCount == 2

Wrap == 2 ^ ClockBits

Min(a, b) == IF a <= b THEN a ELSE b

\* ------------------------------------------------------ program constants
\* const unsigned long captureInterval = 300000;  (in clock ticks)
captureInterval == 300000 \div MsPerTick

\* variant: lastCapture initialised one interval in the past
InitialLastCapture_past == Wrap - captureInterval

\* unsigned long lastCapture = 0;
InitialLastCapture == 0

\* delay(5000) in reconnectMQTT, delay(100) in loop, delay(500) in setup (ms)
RetryDelayMs == 5000
IdleDelayMs == 100
WifiPollMs == 500

VARIABLES
    pc,            \* position of the Arduino thread
    caller,        \* who called reconnectMQTT: "loop" or "cycle"
    clock,         \* millis(), in ticks, modulo Wrap
    lastCapture,   \* the global lastCapture
    connected,     \* what mqtt.connected() would return now
    led,           \* LED_BUILTIN level
    fbLive,        \* frame buffers handed out by esp_camera_fb_get, not returned
    \* ---- history variables (observations, never read by the program)
    sinceLast,     \* true ticks elapsed since lastCapture was written (or boot), saturating at Wrap
    ticks,         \* interval checks evaluated since boot, saturating at MaxCount
    cycles,        \* captureAndSend() calls since boot, saturating at MaxCount
    acqCount,      \* successful esp_camera_fb_get calls in the current cycle
    relCount,      \* esp_camera_fb_return calls in the current cycle
    lastCall,      \* last transport call and its result since the frame was acquired / reconnect began
    droppedSince,  \* the link dropped after the last mqtt.connected() query
    fails,         \* failed mqtt.connect() calls in the reconnectMQTT call of this loop() iteration, saturating
    delayed,       \* milliseconds of delay() requested in that reconnectMQTT call, saturating
    lastPub,       \* result of mqtt.publish() in the current cycle: "none", "ok" or "fail"
    rcCalls,       \* reconnectMQTT() calls made by the current cycle
    overran,       \* the last cycle began two or more intervals after the one before it
    sinceAttempt,  \* in that reconnectMQTT call: "none" (no connect yet), "nodelay" / "delay" (since the last connect)
    iterLog,       \* what the current loop() iteration has done so far, in order
    acqCalls,      \* esp_camera_fb_get calls in the current cycle
    pubCount,      \* mqtt.publish calls in the current cycle
    xportInCycle,  \* the current cycle has called the transport (connected, connect or publish)
    camOk          \* esp_camera_init succeeded in this boot

vars == <<pc, caller, clock, lastCapture, connected, led, fbLive,
          sinceLast, ticks, cycles, acqCount, relCount, lastCall,
          droppedSince, fails, delayed, lastPub, rcCalls, overran,
          sinceAttempt, iterLog, acqCalls, pubCount, xportInCycle, camOk>>

prog == <<pc, caller, lastCapture, led, fbLive>>
obs == <<lastPub, rcCalls, overran>>
obs2 == <<sinceAttempt, iterLog, acqCalls, pubCount, xportInCycle, camOk>>
hist0 == <<ticks, cycles, acqCount, relCount, lastCall, droppedSince, fails, delayed,
           lastPub, rcCalls, overran>>
hist == <<hist0, obs2>>

PcSet == {"setup_begin", "setup_camera", "setup_restart", "setup_wifi",
          "loop_top", "loop_service", "loop_tick", "loop_delay",
          "rc_while", "rc_connect", "rc_delay",
          "cas_led", "cas_acquire", "cas_check", "cas_publish", "cas_release"}

LoopPcs == {"loop_top", "loop_service", "loop_tick", "loop_delay"}
RcPcs == {"rc_while", "rc_connect", "rc_delay"}
CasPcs == {"cas_led", "cas_acquire", "cas_check", "cas_publish", "cas_release"}

\* ------------------------------------------------------------------ time
\* variant: the difference is taken in signed arithmetic, without wrapping
Sub32_signed(a, b) == a - b

\* unsigned long subtraction: currentMillis - lastCapture
Sub32(a, b) == (a - b) % Wrap

\* ticks a delay(ms) is certain to take on the model's clock
DelayTicks(ms) == ms \div MsPerTick

\* the clock moves on by d ticks
Elapse(d) ==
    /\ clock' = (clock + d) % Wrap
    /\ sinceLast' = Min(sinceLast + d, Wrap)

\* a blocking call: any time from lo ticks upwards may pass
Blocks(lo) == \E d \in lo..(lo + MaxElapse) : Elapse(d)

NoTime == UNCHANGED <<clock, sinceLast>>

Bump(n, cap) == Min(n + 1, cap)

TypeOK ==
    /\ pc \in PcSet
    /\ caller \in {"loop", "cycle"}
    /\ clock \in 0..(Wrap - 1)
    /\ lastCapture \in 0..(Wrap - 1)
    /\ connected \in BOOLEAN
    /\ led \in {"LOW", "HIGH"}
    /\ fbLive \in Nat
    /\ sinceLast \in 0..Wrap
    /\ ticks \in 0..MaxCount
    /\ cycles \in 0..MaxCount
    /\ acqCount \in Nat
    /\ relCount \in Nat
    /\ lastCall \in {"none", "q_true", "q_false", "connect_ok", "connect_fail"}
    /\ droppedSince \in BOOLEAN
    /\ fails \in 0..MaxFails
    /\ delayed \in 0..(MaxFails * RetryDelayMs)
    /\ lastPub \in {"none", "ok", "fail"}
    /\ rcCalls \in Nat
    /\ overran \in BOOLEAN
    /\ sinceAttempt \in {"none", "nodelay", "delay"}
    /\ iterLog \in Seq({"connected", "service", "check", "cycle"})
    /\ acqCalls \in Nat
    /\ pubCount \in Nat
    /\ xportInCycle \in BOOLEAN
    /\ camOk \in BOOLEAN

\* ------------------------------------------------------------------ boot
Boot ==
    /\ pc = "setup_begin"
    /\ caller = "loop"
    /\ clock = 0
    /\ lastCapture = InitialLastCapture
    /\ connected = FALSE
    /\ led = "LOW"
    /\ fbLive = 0
    /\ sinceLast = 0
    /\ ticks = 0
    /\ cycles = 0
    /\ acqCount = 0
    /\ relCount = 0
    /\ lastCall = "none"
    /\ droppedSince = FALSE
    /\ fails = 0
    /\ delayed = 0
    /\ lastPub = "none"
    /\ rcCalls = 0
    /\ overran = FALSE
    /\ sinceAttempt = "none"
    /\ iterLog = <<>>
    /\ acqCalls = 0
    /\ pubCount = 0
    /\ xportInCycle = FALSE
    /\ camOk = FALSE

Init == Boot

\* ESP.restart(): the chip reboots, every global is re-initialised
Restart ==
    /\ pc' = "setup_begin"
    /\ caller' = "loop"
    /\ clock' = 0
    /\ lastCapture' = InitialLastCapture
    /\ connected' = FALSE
    /\ led' = "LOW"
    /\ fbLive' = 0
    /\ sinceLast' = 0
    /\ ticks' = 0
    /\ cycles' = 0
    /\ acqCount' = 0
    /\ relCount' = 0
    /\ lastCall' = "none"
    /\ droppedSince' = FALSE
    /\ fails' = 0
    /\ delayed' = 0
    /\ lastPub' = "none"
    /\ rcCalls' = 0
    /\ overran' = FALSE
    /\ sinceAttempt' = "none"
    /\ iterLog' = <<>>
    /\ acqCalls' = 0
    /\ pubCount' = 0
    /\ xportInCycle' = FALSE
    /\ camOk' = FALSE

\* ----------------------------------------------------------------- setup
\* setup(), lines 40-48: serial banner, LED pin configured and driven LOW
SetupBegin ==
    /\ pc = "setup_begin"
    /\ led' = "LOW"
    /\ pc' = "setup_camera"
    /\ NoTime
    /\ UNCHANGED <<caller, lastCapture, connected, fbLive>>
    /\ UNCHANGED hist

\* setup(), lines 50-83: esp_camera_init succeeds
SetupCameraOk ==
    /\ pc = "setup_camera"
    /\ pc' = "setup_wifi"
    /\ camOk' = TRUE
    /\ Blocks(0)
    /\ UNCHANGED <<caller, lastCapture, connected, led, fbLive>>
    /\ UNCHANGED hist0
    /\ UNCHANGED <<sinceAttempt, iterLog, acqCalls, pubCount, xportInCycle>>

\* setup(), lines 79-81: esp_camera_init fails, the error is printed
SetupCameraFail ==
    /\ pc = "setup_camera"
    /\ pc' = "setup_restart"
    /\ Blocks(0)
    /\ UNCHANGED <<caller, lastCapture, connected, led, fbLive>>
    /\ UNCHANGED hist

\* variant: the restart is missing and setup() carries on after the failed init
SetupRestart_carryOn ==
    /\ pc = "setup_restart"
    /\ pc' = "setup_wifi"
    /\ NoTime
    /\ UNCHANGED <<caller, lastCapture, connected, led, fbLive>>
    /\ UNCHANGED hist

\* setup(), line 82: ESP.restart()
SetupRestart ==
    /\ pc = "setup_restart"
    /\ Restart

\* setup(), lines 86-91: WiFi.status() != WL_CONNECTED, delay(500)
SetupWifiWait ==
    /\ pc = "setup_wifi"
    /\ pc' = "setup_wifi"
    /\ Blocks(DelayTicks(WifiPollMs))
    /\ UNCHANGED <<caller, lastCapture, connected, led, fbLive>>
    /\ UNCHANGED hist

\* setup(), lines 88-99: WiFi is up, MQTT server and buffer size set, setup returns
SetupWifiUp ==
    /\ pc = "setup_wifi"
    /\ pc' = "loop_top"
    /\ NoTime
    /\ UNCHANGED <<caller, lastCapture, connected, led, fbLive>>
    /\ UNCHANGED hist

\* --------------------------------------------------------- reconnectMQTT
\* entry into reconnectMQTT() from `from`, returning to its caller
EnterReconnect(from) ==
    /\ pc' = "rc_while"
    /\ caller' = from
    /\ fails' = 0
    /\ delayed' = 0
    /\ sinceAttempt' = "none"

\* where reconnectMQTT() returns to
ReturnPc(c) == IF c = "loop" THEN "loop_service" ELSE "cas_publish"

\* variant: the retry loop gives up after two failed attempts
ReconnectWhile_giveUp ==
    /\ pc = "rc_while"
    /\ lastCall' = (IF connected THEN "q_true" ELSE "q_false")
    /\ droppedSince' = FALSE
    /\ pc' = (IF connected \/ fails >= 2 THEN ReturnPc(caller) ELSE "rc_connect")
    /\ iterLog' = (IF (connected \/ fails >= 2) /\ caller = "loop" THEN Append(iterLog, "connected") ELSE iterLog)
    /\ xportInCycle' = (xportInCycle \/ caller = "cycle")
    /\ NoTime
    /\ UNCHANGED <<caller, lastCapture, connected, led, fbLive>>
    /\ UNCHANGED <<ticks, cycles, acqCount, relCount, fails, delayed>>
    /\ UNCHANGED obs
    /\ UNCHANGED <<sinceAttempt, acqCalls, pubCount, camOk>>

\* line 102: while (!mqtt.connected())
ReconnectWhile ==
    /\ pc = "rc_while"
    /\ lastCall' = (IF connected THEN "q_true" ELSE "q_false")
    /\ droppedSince' = FALSE
    /\ pc' = (IF connected THEN ReturnPc(caller) ELSE "rc_connect")
    /\ iterLog' = (IF (connected) /\ caller = "loop" THEN Append(iterLog, "connected") ELSE iterLog)
    /\ xportInCycle' = (xportInCycle \/ caller = "cycle")
    /\ NoTime
    /\ UNCHANGED <<caller, lastCapture, connected, led, fbLive>>
    /\ UNCHANGED <<ticks, cycles, acqCount, relCount, fails, delayed>>
    /\ UNCHANGED obs
    /\ UNCHANGED <<sinceAttempt, acqCalls, pubCount, camOk>>

\* variant: a successful connect returns at once, without asking mqtt.connected() again
ReconnectConnect_returnOnSuccess(ok) ==
    /\ pc = "rc_connect"
    /\ connected' = ok
    /\ lastCall' = (IF ok THEN "connect_ok" ELSE "connect_fail")
    /\ fails' = (IF ok THEN fails ELSE Bump(fails, MaxFails))
    /\ pc' = (IF ok THEN ReturnPc(caller) ELSE "rc_delay")
    /\ sinceAttempt' = "nodelay"
    /\ xportInCycle' = (xportInCycle \/ caller = "cycle")
    /\ Blocks(0)
    /\ UNCHANGED <<caller, lastCapture, led, fbLive>>
    /\ UNCHANGED <<ticks, cycles, acqCount, relCount, droppedSince, delayed>>
    /\ UNCHANGED obs
    /\ UNCHANGED <<iterLog, acqCalls, pubCount, camOk>>

\* variant: delay(5000) placed after the if/else, so it also follows a success
ReconnectConnect_alwaysDelay(ok) ==
    /\ pc = "rc_connect"
    /\ connected' = ok
    /\ lastCall' = (IF ok THEN "connect_ok" ELSE "connect_fail")
    /\ fails' = (IF ok THEN fails ELSE Bump(fails, MaxFails))
    /\ pc' = "rc_delay"
    /\ sinceAttempt' = "nodelay"
    /\ xportInCycle' = (xportInCycle \/ caller = "cycle")
    /\ Blocks(0)
    /\ UNCHANGED <<caller, lastCapture, led, fbLive>>
    /\ UNCHANGED <<ticks, cycles, acqCount, relCount, droppedSince, delayed>>
    /\ UNCHANGED obs
    /\ UNCHANGED <<iterLog, acqCalls, pubCount, camOk>>

\* lines 103-107: mqtt.connect(...) with outcome ok
ReconnectConnect(ok) ==
    /\ pc = "rc_connect"
    /\ connected' = ok
    /\ lastCall' = (IF ok THEN "connect_ok" ELSE "connect_fail")
    /\ fails' = (IF ok THEN fails ELSE Bump(fails, MaxFails))
    /\ pc' = (IF ok THEN "rc_while" ELSE "rc_delay")
    /\ sinceAttempt' = "nodelay"
    /\ xportInCycle' = (xportInCycle \/ caller = "cycle")
    /\ Blocks(0)
    /\ UNCHANGED <<caller, lastCapture, led, fbLive>>
    /\ UNCHANGED <<ticks, cycles, acqCount, relCount, droppedSince, delayed>>
    /\ UNCHANGED obs
    /\ UNCHANGED <<iterLog, acqCalls, pubCount, camOk>>

ReconnectConnectOk == ReconnectConnect(TRUE)

ReconnectConnectFail == ReconnectConnect(FALSE)

\* lines 108-113: else branch, delay(5000)
ReconnectDelay ==
    /\ pc = "rc_delay"
    /\ delayed' = Min(delayed + RetryDelayMs, MaxFails * RetryDelayMs)
    /\ pc' = "rc_while"
    /\ sinceAttempt' = "delay"
    /\ Blocks(DelayTicks(RetryDelayMs))
    /\ UNCHANGED <<caller, lastCapture, connected, led, fbLive>>
    /\ UNCHANGED <<ticks, cycles, acqCount, relCount, lastCall, droppedSince, fails>>
    /\ UNCHANGED obs
    /\ UNCHANGED <<iterLog, acqCalls, pubCount, xportInCycle, camOk>>

\* -------------------------------------------------------- captureAndSend
\* lines 118-119: digitalWrite(LED_BUILTIN, HIGH)
CasLedOn ==
    /\ pc = "cas_led"
    /\ led' = "HIGH"
    /\ pc' = "cas_acquire"
    /\ NoTime
    /\ UNCHANGED <<caller, lastCapture, connected, fbLive>>
    /\ UNCHANGED hist

\* lines 121, 128: esp_camera_fb_get() returns a frame buffer
CasAcquireOk ==
    /\ pc = "cas_acquire"
    /\ fbLive' = fbLive + 1
    /\ acqCount' = acqCount + 1
    /\ acqCalls' = acqCalls + 1
    /\ lastCall' = "none"
    /\ pc' = "cas_check"
    /\ Blocks(0)
    /\ UNCHANGED <<caller, lastCapture, connected, led>>
    /\ UNCHANGED <<ticks, cycles, relCount, droppedSince, fails, delayed>>
    /\ UNCHANGED obs
    /\ UNCHANGED <<sinceAttempt, iterLog, pubCount, xportInCycle, camOk>>

\* variant: the return after a failed capture is missing
CasAcquireFail_fallThrough ==
    /\ pc = "cas_acquire"
    /\ acqCalls' = acqCalls + 1
    /\ led' = "LOW"
    /\ pc' = "cas_check"
    /\ Blocks(0)
    /\ UNCHANGED <<caller, lastCapture, connected, fbLive>>
    /\ UNCHANGED hist0
    /\ UNCHANGED <<sinceAttempt, iterLog, pubCount, xportInCycle, camOk>>

\* variant: the LED is left on when the capture fails
CasAcquireFail_ledStays ==
    /\ pc = "cas_acquire"
    /\ acqCalls' = acqCalls + 1
    /\ pc' = "loop_delay"
    /\ Blocks(0)
    /\ UNCHANGED <<caller, lastCapture, connected, led, fbLive>>
    /\ UNCHANGED hist0
    /\ UNCHANGED <<sinceAttempt, iterLog, pubCount, xportInCycle, camOk>>

\* lines 121-126: esp_camera_fb_get() returns NULL: LED off, return
CasAcquireFail ==
    /\ pc = "cas_acquire"
    /\ acqCalls' = acqCalls + 1
    /\ led' = "LOW"
    /\ pc' = "loop_delay"
    /\ Blocks(0)
    /\ UNCHANGED <<caller, lastCapture, connected, fbLive>>
    /\ UNCHANGED hist0
    /\ UNCHANGED <<sinceAttempt, iterLog, pubCount, xportInCycle, camOk>>

\* variant: captureAndSend publishes without looking at the connection
CasCheckConnected_skip ==
    /\ pc = "cas_check"
    /\ pc' = "cas_publish"
    /\ NoTime
    /\ UNCHANGED <<caller, lastCapture, connected, led, fbLive>>
    /\ UNCHANGED hist

\* variant: a cycle that finds the link down waits for it to come back by
\* itself instead of reconnecting
CasCheckConnected_wait ==
    /\ pc = "cas_check"
    /\ lastCall' = (IF connected THEN "q_true" ELSE "q_false")
    /\ droppedSince' = FALSE
    /\ pc' = (IF connected THEN "cas_publish" ELSE "cas_check")
    /\ xportInCycle' = TRUE
    /\ NoTime
    /\ UNCHANGED <<caller, fails, delayed, rcCalls, sinceAttempt>>
    /\ UNCHANGED <<lastCapture, connected, led, fbLive>>
    /\ UNCHANGED <<ticks, cycles, acqCount, relCount, lastPub, overran>>
    /\ UNCHANGED <<iterLog, acqCalls, pubCount, camOk>>

\* lines 131-133: if (!mqtt.connected()) reconnectMQTT();
CasCheckConnected ==
    /\ pc = "cas_check"
    /\ lastCall' = (IF connected THEN "q_true" ELSE "q_false")
    /\ droppedSince' = FALSE
    /\ IF connected
         THEN /\ pc' = "cas_publish"
              /\ UNCHANGED <<caller, fails, delayed, rcCalls, sinceAttempt>>
         ELSE /\ EnterReconnect("cycle")
              /\ rcCalls' = rcCalls + 1
    /\ xportInCycle' = TRUE
    /\ NoTime
    /\ UNCHANGED <<lastCapture, connected, led, fbLive>>
    /\ UNCHANGED <<ticks, cycles, acqCount, relCount, lastPub, overran>>
    /\ UNCHANGED <<iterLog, acqCalls, pubCount, camOk>>

\* variant: a failed publish returns at once, without esp_camera_fb_return
CasPublish_earlyReturn(success) ==
    /\ pc = "cas_publish"
    /\ success => connected
    /\ lastPub' = (IF success THEN "ok" ELSE "fail")
    /\ pc' = (IF success THEN "cas_release" ELSE "loop_delay")
    /\ led' = (IF success THEN led ELSE "LOW")
    /\ Blocks(0)
    /\ UNCHANGED <<caller, lastCapture, connected, fbLive>>
    /\ pubCount' = pubCount + 1
    /\ xportInCycle' = TRUE
    /\ UNCHANGED <<ticks, cycles, acqCount, relCount, lastCall, droppedSince, fails, delayed>>
    /\ UNCHANGED <<rcCalls, overran>>
    /\ UNCHANGED <<sinceAttempt, iterLog, acqCalls, camOk>>

\* variant: a failed publish is tried again
CasPublish_retry(success) ==
    /\ pc = "cas_publish"
    /\ success => connected
    /\ lastPub' = (IF success THEN "ok" ELSE "fail")
    /\ pc' = (IF success THEN "cas_release" ELSE "cas_publish")
    /\ Blocks(0)
    /\ UNCHANGED <<caller, lastCapture, connected, led, fbLive>>
    /\ pubCount' = pubCount + 1
    /\ xportInCycle' = TRUE
    /\ UNCHANGED <<ticks, cycles, acqCount, relCount, lastCall, droppedSince, fails, delayed>>
    /\ UNCHANGED <<rcCalls, overran>>
    /\ UNCHANGED <<sinceAttempt, iterLog, acqCalls, camOk>>

\* lines 136-142: mqtt.publish(...) with result success; a publish on a
\* dropped link cannot succeed
CasPublish(success) ==
    /\ pc = "cas_publish"
    /\ success => connected
    /\ lastPub' = (IF success THEN "ok" ELSE "fail")
    /\ pc' = "cas_release"
    /\ Blocks(0)
    /\ UNCHANGED <<caller, lastCapture, connected, led, fbLive>>
    /\ pubCount' = pubCount + 1
    /\ xportInCycle' = TRUE
    /\ UNCHANGED <<ticks, cycles, acqCount, relCount, lastCall, droppedSince, fails, delayed>>
    /\ UNCHANGED <<rcCalls, overran>>
    /\ UNCHANGED <<sinceAttempt, iterLog, acqCalls, camOk>>

CasPublishOk == CasPublish(TRUE)

CasPublishFail == CasPublish(FALSE)

\* variant: the frame buffer is never handed back
CasRelease_leak ==
    /\ pc = "cas_release"
    /\ led' = "LOW"
    /\ pc' = "loop_delay"
    /\ NoTime
    /\ UNCHANGED <<caller, lastCapture, connected, fbLive>>
    /\ UNCHANGED hist

\* variant: lastCapture is stamped again when the cycle ends
CasRelease_stamp ==
    /\ pc = "cas_release"
    /\ fbLive' = fbLive - 1
    /\ relCount' = relCount + 1
    /\ led' = "LOW"
    /\ lastCapture' = clock
    /\ pc' = "loop_delay"
    /\ NoTime
    /\ UNCHANGED <<caller, connected>>
    /\ UNCHANGED <<ticks, cycles, acqCount, lastCall, droppedSince, fails, delayed>>
    /\ UNCHANGED obs
    /\ UNCHANGED obs2

\* lines 144-146: esp_camera_fb_return(fb); LED off; return
CasRelease ==
    /\ pc = "cas_release"
    /\ fbLive' = fbLive - 1
    /\ relCount' = relCount + 1
    /\ led' = "LOW"
    /\ pc' = "loop_delay"
    /\ NoTime
    /\ UNCHANGED <<caller, lastCapture, connected>>
    /\ UNCHANGED <<ticks, cycles, acqCount, lastCall, droppedSince, fails, delayed>>
    /\ UNCHANGED obs
    /\ UNCHANGED obs2

\* ------------------------------------------------------------------ loop
\* variant: loop() notes the lost connection but goes on without reconnecting
LoopCheckConnected_noReconnect ==
    /\ pc = "loop_top"
    /\ lastCall' = (IF connected THEN "q_true" ELSE "q_false")
    /\ droppedSince' = FALSE
    /\ pc' = "loop_service"
    /\ iterLog' = (IF connected THEN Append(iterLog, "connected") ELSE iterLog)
    /\ NoTime
    /\ UNCHANGED <<caller, fails, delayed, sinceAttempt>>
    /\ UNCHANGED <<lastCapture, connected, led, fbLive>>
    /\ UNCHANGED <<ticks, cycles, acqCount, relCount>>
    /\ UNCHANGED obs
    /\ UNCHANGED <<acqCalls, pubCount, xportInCycle, camOk>>

\* lines 149-151: if (!mqtt.connected()) reconnectMQTT();
LoopCheckConnected ==
    /\ pc = "loop_top"
    /\ lastCall' = (IF connected THEN "q_true" ELSE "q_false")
    /\ droppedSince' = FALSE
    /\ IF connected
         THEN /\ pc' = "loop_service"
              /\ iterLog' = Append(iterLog, "connected")
              /\ UNCHANGED <<caller, fails, delayed, sinceAttempt>>
         ELSE /\ EnterReconnect("loop")
              /\ iterLog' = iterLog
    /\ NoTime
    /\ UNCHANGED <<lastCapture, connected, led, fbLive>>
    /\ UNCHANGED <<ticks, cycles, acqCount, relCount>>
    /\ UNCHANGED obs
    /\ UNCHANGED <<acqCalls, pubCount, xportInCycle, camOk>>

\* line 152: mqtt.loop()
LoopService ==
    /\ pc = "loop_service"
    /\ pc' = "loop_tick"
    /\ iterLog' = Append(iterLog, "service")
    /\ NoTime
    /\ UNCHANGED <<caller, lastCapture, connected, led, fbLive>>
    /\ UNCHANGED hist0
    /\ UNCHANGED <<sinceAttempt, acqCalls, pubCount, xportInCycle, camOk>>

\* variant: > instead of >=
IntervalElapsed_strict(now, last) == Sub32(now, last) > captureInterval

\* variant: the subtraction of lastCapture is forgotten
IntervalElapsed_noSub(now, last) == now >= captureInterval

\* line 156: currentMillis - lastCapture >= captureInterval
IntervalElapsed(now, last) == Sub32(now, last) >= captureInterval

\* variant: the schedule is advanced by one interval instead of being set to now
NextLastCapture_catchUp(now, last) == (last + captureInterval) % Wrap

\* line 157: lastCapture = currentMillis
NextLastCapture(now, last) == now

\* lines 155-158: the interval check is true: lastCapture written, captureAndSend() entered
LoopTickFire ==
    /\ pc = "loop_tick"
    /\ IntervalElapsed(clock, lastCapture)
    /\ lastCapture' = NextLastCapture(clock, lastCapture)
    /\ sinceLast' = 0
    /\ clock' = clock
    /\ pc' = "cas_led"
    /\ ticks' = Bump(ticks, MaxCount)
    /\ cycles' = Bump(cycles, MaxCount)
    /\ acqCount' = 0
    /\ relCount' = 0
    /\ lastPub' = "none"
    /\ rcCalls' = 0
    /\ overran' = (cycles >= 1 /\ sinceLast >= 2 * captureInterval)
    /\ iterLog' = iterLog \o <<"check", "cycle">>
    /\ acqCalls' = 0
    /\ pubCount' = 0
    /\ xportInCycle' = FALSE
    /\ UNCHANGED <<caller, connected, led, fbLive>>
    /\ UNCHANGED <<lastCall, droppedSince, fails, delayed>>
    /\ UNCHANGED <<sinceAttempt, camOk>>

\* lines 155-159: the interval check is false: nothing happens
LoopTickSkip ==
    /\ pc = "loop_tick"
    /\ ~IntervalElapsed(clock, lastCapture)
    /\ pc' = "loop_delay"
    /\ ticks' = Bump(ticks, MaxCount)
    /\ NoTime
    /\ UNCHANGED <<caller, lastCapture, connected, led, fbLive>>
    /\ iterLog' = Append(iterLog, "check")
    /\ UNCHANGED <<cycles, acqCount, relCount, lastCall, droppedSince, fails, delayed>>
    /\ UNCHANGED obs
    /\ UNCHANGED <<sinceAttempt, acqCalls, pubCount, xportInCycle, camOk>>

\* variant: loop() stops for good once a cycle has failed
LoopDelay_haltOnFailure ==
    /\ pc = "loop_delay"
    /\ ~(acqCalls > acqCount \/ lastPub = "fail")
    /\ pc' = "loop_top"
    /\ iterLog' = <<>>
    /\ fails' = 0
    /\ delayed' = 0
    /\ sinceAttempt' = "none"
    /\ Blocks(DelayTicks(IdleDelayMs))
    /\ UNCHANGED <<caller, lastCapture, connected, led, fbLive>>
    /\ UNCHANGED <<ticks, cycles, acqCount, relCount, lastCall, droppedSince>>
    /\ UNCHANGED obs
    /\ UNCHANGED <<acqCalls, pubCount, xportInCycle, camOk>>

\* line 161: delay(100)
LoopDelay ==
    /\ pc = "loop_delay"
    /\ pc' = "loop_top"
    /\ iterLog' = <<>>
    /\ fails' = 0
    /\ delayed' = 0
    /\ sinceAttempt' = "none"
    /\ Blocks(DelayTicks(IdleDelayMs))
    /\ UNCHANGED <<caller, lastCapture, connected, led, fbLive>>
    /\ UNCHANGED <<ticks, cycles, acqCount, relCount, lastCall, droppedSince>>
    /\ UNCHANGED obs
    /\ UNCHANGED <<acqCalls, pubCount, xportInCycle, camOk>>

\* ----------------------------------------------------------- environment
\* the broker link is lost; the program can only see it by calling mqtt.connected()
LinkDrop ==
    /\ pc \in LoopPcs \cup RcPcs \cup CasPcs
    /\ connected
    /\ connected' = FALSE
    /\ droppedSince' = TRUE
    /\ NoTime
    /\ UNCHANGED prog
    /\ UNCHANGED <<ticks, cycles, acqCount, relCount, lastCall, fails, delayed>>
    /\ UNCHANGED obs
    /\ UNCHANGED obs2

Next ==
    \/ SetupBegin
    \/ SetupCameraOk
    \/ SetupCameraFail
    \/ SetupRestart
    \/ SetupWifiWait
    \/ SetupWifiUp
    \/ ReconnectWhile
    \/ ReconnectConnectOk
    \/ ReconnectConnectFail
    \/ ReconnectDelay
    \/ CasLedOn
    \/ CasAcquireOk
    \/ CasAcquireFail
    \/ CasCheckConnected
    \/ CasPublishOk
    \/ CasPublishFail
    \/ CasRelease
    \/ LoopCheckConnected
    \/ LoopService
    \/ LoopTickFire
    \/ LoopTickSkip
    \/ LoopDelay
    \/ LinkDrop

Spec == Init /\ [][Next]_vars

\* ------------------------------------------------------------- fairness
\* the steps of the one Arduino thread (everything but the environment's LinkDrop)
Thread ==
    \/ SetupBegin
    \/ SetupCameraOk
    \/ SetupCameraFail
    \/ SetupRestart
    \/ SetupWifiWait
    \/ SetupWifiUp
    \/ ReconnectWhile
    \/ ReconnectConnectOk
    \/ ReconnectConnectFail
    \/ ReconnectDelay
    \/ CasLedOn
    \/ CasAcquireOk
    \/ CasAcquireFail
    \/ CasCheckConnected
    \/ CasPublishOk
    \/ CasPublishFail
    \/ CasRelease
    \/ LoopCheckConnected
    \/ LoopService
    \/ LoopTickFire
    \/ LoopTickSkip
    \/ LoopDelay

\* line 102 sees the connection up and reconnectMQTT() returns
ReconnectSeesConnected == ReconnectWhile /\ connected

\* line 161: the idle delay during which the clock moves on
LoopDelayTimePasses == LoopDelay /\ clock' # clock

\* The thread always runs on (the Arduino core calls loop() forever and no call
\* in it blocks for ever); a connect attempt that is repeated eventually
\* succeeds and the loop condition then sees the connection up.
FairSpec ==
    /\ Spec
    /\ WF_vars(Thread)
    /\ SF_vars(ReconnectConnectOk)
    /\ SF_vars(ReconnectSeesConnected)

\* As FairSpec, and time advances while loop() idles.
LiveSpec ==
    /\ FairSpec
    /\ SF_vars(LoopDelayTimePasses)

\* from some point on the link is not lost any more
LinkSettles == <>[][~LinkDrop]_vars

\* ========================================================================
\* Properties
\* ========================================================================

\* control is inside captureAndSend(), or in a reconnectMQTT() it called
InCycle == pc \in CasPcs \/ (pc \in RcPcs /\ caller = "cycle")

\* control is in loop() itself, or in a reconnectMQTT() called from loop()
AtLoop == pc \in LoopPcs \/ (pc \in RcPcs /\ caller = "loop")

\* the step evaluates the interval check of loop()
TickStep == pc = "loop_tick" /\ pc' # "loop_tick"

\* the step is the call of captureAndSend() from loop()
CycleStart == pc = "loop_tick" /\ pc' = "cas_led"

\* the step returns from reconnectMQTT()
ReconnectReturn == pc \in RcPcs /\ pc' \notin RcPcs

\* ------------------------------------------------------------------- C1
\* C1: the interval check in loop() starts captureAndSend() if and only if
\* (now - lastCapture) modulo the clock period is >= captureInterval when
\* millis() is read; when it does, lastCapture already holds that now in the
\* first state of captureAndSend() and is not written again during the cycle;
\* when it does not, the check changes nothing.
C1_TickRule ==
    [][ /\ TickStep =>
            IF (clock - lastCapture) % Wrap >= captureInterval
              THEN /\ pc' = "cas_led"
                   /\ lastCapture' = clock
                   /\ led' = led /\ fbLive' = fbLive
              ELSE /\ pc' = "loop_delay"
                   /\ UNCHANGED <<lastCapture, caller, connected, led, fbLive, clock>>
        /\ InCycle => lastCapture' = lastCapture
      ]_vars

\* a second cycle has just been started and lastCapture is the time read by its check
C1_Witness ==
    /\ pc = "cas_led"
    /\ cycles = MaxCount
    /\ lastCapture = clock
    /\ sinceLast = 0

\* ------------------------------------------------------------------- C2
\* C2 (as stated): the first interval check after startup always starts a cycle.
C2_FirstTickStartsCycle ==
    [][ (TickStep /\ ticks = 0) => pc' = "cas_led" ]_vars

\* C2 (amended): lastCapture is 0 until the first cycle, so an interval check
\* made before any cycle starts one if and only if millis() has reached
\* captureInterval: a check at t = 0 or t = captureInterval - 1 starts none,
\* a check at t = captureInterval starts the first cycle and leaves
\* lastCapture = captureInterval.
C2_FirstCycleRule ==
    [][ (TickStep /\ cycles = 0) =>
            /\ lastCapture = 0
            /\ (pc' = "cas_led") <=> (clock >= captureInterval)
            /\ (pc' = "cas_led") => (lastCapture' = clock)
      ]_vars

\* the first cycle was started by a later check than the first, exactly at t = captureInterval
C2_Witness ==
    /\ pc = "cas_led"
    /\ cycles = 1
    /\ ticks >= 2
    /\ lastCapture = captureInterval
    /\ clock = captureInterval

\* ------------------------------------------------------------------- C3
\* C3: a cycle acquires at most one frame buffer; it never returns more
\* buffers than it acquired; while it runs between the acquire and the release
\* none has been returned; when control is back in loop() every acquired
\* buffer has been returned exactly once, whatever publish() reported and
\* whether or not reconnectMQTT() was called.
C3_ReleaseExactlyOnce ==
    /\ acqCount <= 1
    /\ relCount <= acqCount
    /\ (pc \in {"cas_check", "cas_publish", "cas_release"} \/ (pc \in RcPcs /\ caller = "cycle"))
          => (acqCount = 1 /\ relCount = 0)
    /\ AtLoop => relCount = acqCount

\* a cycle that went through reconnectMQTT() and whose publish failed has returned to loop()
C3_Witness ==
    /\ pc = "loop_delay"
    /\ acqCount = 1
    /\ relCount = 1
    /\ lastPub = "fail"
    /\ rcCalls = 1

\* ------------------------------------------------------------------- C4
\* C4: at most one frame buffer is outstanding; none is outstanding when
\* esp_camera_fb_get() is about to be called, nor whenever control is in
\* loop() or in setup().
C4_AtMostOneBuffer ==
    /\ fbLive <= 1
    /\ pc = "cas_acquire" => fbLive = 0
    /\ ~InCycle => fbLive = 0

\* the second cycle holds its buffer
C4_Witness ==
    /\ fbLive = 1
    /\ cycles = MaxCount
    /\ pc = "cas_publish"

\* ------------------------------------------------------------------- C5
\* C5: reconnectMQTT() returns only from its loop condition, with
\* mqtt.connected() having just returned true in that very step; the call
\* before that query was a successful mqtt.connect(), so without a successful
\* connect it does not return.
C5_ReturnsOnlyConnected ==
    [][ ReconnectReturn =>
            /\ pc = "rc_while"
            /\ connected
            /\ lastCall = "connect_ok"
            /\ lastCall' = "q_true"
            /\ pc' = ReturnPc(caller)
      ]_vars

\* reconnectMQTT() called by the first loop iteration has returned after failed attempts
C5_Witness ==
    /\ pc = "loop_service"
    /\ ticks = 0
    /\ fails = MaxFails
    /\ lastCall = "q_true"

\* ------------------------------------------------------------------- C6
\* C6: when mqtt.publish() is about to be called, the last transport call
\* made since the frame was acquired is an mqtt.connected() query that
\* returned true.
C6_QueryBeforePublish ==
    pc = "cas_publish" => (acqCount = 1 /\ lastCall = "q_true")

\* publish is reached through a reconnectMQTT() that needed one retry
C6_Witness ==
    /\ pc = "cas_publish"
    /\ rcCalls = 1
    /\ fails = 1
    /\ lastCall = "q_true"

\* ------------------------------------------------------------------- C7
\* C7 (as stated): whenever mqtt.publish() is about to be called the
\* transport is connected.
C7_PublishOnlyWhenConnected ==
    pc = "cas_publish" => connected

\* C7 (amended): mqtt.publish() is called only after an mqtt.connected()
\* query of the same cycle returned true, with no other transport call in
\* between, and the transport is connected at that moment unless the link
\* dropped after that query.
C7_ConnectedUnlessDropped ==
    pc = "cas_publish" => (lastCall = "q_true" /\ (connected \/ droppedSince))

\* the link dropped between the query and the publish
C7_Witness ==
    /\ pc = "cas_publish"
    /\ ~connected
    /\ droppedSince

\* ------------------------------------------------------------------- C8
\* C8 (as stated, the part that fails): at an interval check made after a
\* cycle, if captureInterval or more has passed since that cycle started, a
\* cycle is started.
C8_OverrunStartsCycle ==
    [][ (TickStep /\ cycles >= 1 /\ sinceLast >= captureInterval) => pc' = "cas_led" ]_vars

\* C8 (amended): a cycle is started only when at least captureInterval has
\* passed since the previous cycle started, and the schedule then restarts
\* from now (lastCapture = now), so no second cycle follows for the missed
\* intervals; a check made captureInterval or more, but less than one clock
\* period, after the previous start does start a cycle.
C8_NoFasterThanInterval ==
    [][ (TickStep /\ cycles >= 1) =>
            /\ (pc' = "cas_led") => (sinceLast >= captureInterval /\ lastCapture' = clock)
            /\ (sinceLast >= captureInterval /\ sinceLast < Wrap) => (pc' = "cas_led")
      ]_vars

\* a cycle was started two or more intervals after the previous one
C8_Witness ==
    /\ pc = "cas_led"
    /\ overran
    /\ sinceLast = 0

\* ------------------------------------------------------------------- C9
\* C9 (as stated): every assignment to lastCapture stores a value strictly
\* greater than the one it replaces.
C9_StrictlyIncreases ==
    [][ CycleStart => lastCapture' > lastCapture ]_vars

\* C9 (amended): every assignment to lastCapture stores a value that is at
\* least captureInterval ahead of the one it replaces modulo the clock
\* period; it is strictly greater if millis() has not wrapped since the
\* replaced value was stored, and smaller if it has wrapped once.
C9_IncreasesModuloWrap ==
    [][ CycleStart =>
            /\ (lastCapture' - lastCapture) % Wrap >= captureInterval
            /\ (lastCapture + sinceLast < Wrap) => (lastCapture' > lastCapture)
            /\ (sinceLast < Wrap /\ lastCapture + sinceLast >= Wrap) => (lastCapture' < lastCapture)
      ]_vars

\* lastCapture holds a value below captureInterval, which only a wrapped clock can give
C9_Witness ==
    /\ pc = "cas_led"
    /\ cycles >= 1
    /\ lastCapture < captureInterval

\* ------------------------------------------------------------------ C10
\* C10: in reconnectMQTT() a delay is entered only directly after a failed
\* mqtt.connect(), each delay is RetryDelayMs long, and outside the delay
\* itself the time delayed is RetryDelayMs times the number of failed
\* attempts; a successful connect goes straight back to the loop condition;
\* a call made from a cycle returns to the mqtt.publish() call.
C10_OneDelayPerFailure ==
    /\ [](pc = "rc_delay" => lastCall = "connect_fail")
    /\ [](pc # "rc_delay" => delayed = fails * RetryDelayMs)
    /\ [][ (pc = "rc_delay" /\ pc' # "rc_delay") => delayed' \in {delayed + RetryDelayMs, MaxFails * RetryDelayMs} ]_vars
    /\ [][ (pc = "rc_connect" /\ lastCall' = "connect_ok") => (pc' = "rc_while" /\ delayed' = delayed) ]_vars
    /\ [][ (ReconnectReturn /\ caller = "cycle") => pc' = "cas_publish" ]_vars

\* connect failed twice and then succeeded inside a cycle: two delays, publish is next
C10_Witness ==
    /\ pc = "cas_publish"
    /\ rcCalls = 1
    /\ fails = 2
    /\ delayed = 2 * RetryDelayMs

\* ------------------------------------------------------------------ C11
\* the current cycle's esp_camera_fb_get() returned NULL
AcqNull == acqCalls > acqCount

\* C11 (as stated): inside one reconnectMQTT() call, whenever mqtt.connect()
\* is about to be called again, a delay has run since the previous attempt.
C11_DelayBetweenAttempts ==
    pc = "rc_connect" => sinceAttempt # "nodelay"

\* ------------------------------------------------------------------ C12
\* C12: a loop() iteration does, in this order: see the connection up (its own
\* query, or the one that ends reconnectMQTT()), mqtt.loop() once, the interval
\* check once, at most one cycle, the idle delay.  mqtt.loop() is not reached
\* before the connection was seen up in this iteration and no cycle runs
\* before mqtt.loop().
C12_IterationOrder ==
    /\ (pc = "loop_top" \/ (pc \in RcPcs /\ caller = "loop")) => iterLog = <<>>
    /\ pc = "loop_service" => (iterLog = <<"connected">> /\ lastCall = "q_true")
    /\ pc = "loop_tick" => iterLog = <<"connected", "service">>
    /\ InCycle => iterLog = <<"connected", "service", "check", "cycle">>
    /\ pc = "loop_delay" =>
          iterLog \in {<<"connected", "service", "check">>,
                       <<"connected", "service", "check", "cycle">>}

\* an iteration that had to reconnect first has run a whole cycle and is at its idle delay
C12_Witness ==
    /\ pc = "loop_delay"
    /\ iterLog = <<"connected", "service", "check", "cycle">>
    /\ caller = "loop"
    /\ fails >= 1
    /\ acqCount = 1

\* ------------------------------------------------------------------ C13
\* C13: once esp_camera_fb_get() has returned NULL the cycle is over: control
\* is back in loop(), the LED is off, and the cycle has made no
\* esp_camera_fb_return, no publish, no connected() query and no connect.
C13_CaptureFailureEndsCycle ==
    /\ AcqNull =>
          /\ ~InCycle
          /\ led = "LOW"
          /\ acqCalls = 1 /\ acqCount = 0
          /\ relCount = 0
          /\ pubCount = 0 /\ lastPub = "none"
          /\ rcCalls = 0
          /\ ~xportInCycle
          /\ fbLive = 0
    /\ (pc = "loop_delay" /\ iterLog = <<"connected", "service", "check", "cycle">> /\ acqCount = 0)
          => AcqNull

\* a capture failed and loop() has gone on to its next iteration
C13_Witness ==
    /\ AcqNull
    /\ pc = "loop_service"
    /\ cycles >= 1

\* ------------------------------------------------------------------ C15
\* C15: the LED is off whenever control is in setup(), in loop() or in a
\* reconnectMQTT() called from loop(); inside captureAndSend() it is on from
\* line 119 until the return.
C15_LedOnlyDuringCycle ==
    /\ ~InCycle => led = "LOW"
    /\ pc = "cas_led" => led = "LOW"
    /\ (InCycle /\ pc # "cas_led") => led = "HIGH"

\* after a cycle, loop() is retrying the connection with the LED off
C15_Witness ==
    /\ pc = "rc_delay"
    /\ caller = "loop"
    /\ cycles >= 1
    /\ led = "LOW"

\* ------------------------------------------------------------------ C16
\* C16: when esp_camera_init fails the next step is the restart, which puts
\* every variable back to its power-on value; control gets past the camera
\* initialisation only in a boot where it succeeded; in a boot where it
\* failed nothing was connected, captured or published; and a restart happens
\* from nowhere but line 82.
C16_OnlyInitFailureRestarts ==
    /\ [](pc \notin {"setup_begin", "setup_camera", "setup_restart"} => camOk)
    /\ [](pc = "setup_restart" =>
            ~camOk /\ ~connected /\ fbLive = 0 /\ cycles = 0 /\ ticks = 0
            /\ lastCall = "none" /\ acqCalls = 0 /\ pubCount = 0 /\ iterLog = <<>>)
    /\ [][ pc = "setup_restart" => (pc' = "setup_begin" /\ clock' = 0 /\ ~camOk') ]_vars
    /\ [][ (pc' = "setup_begin" /\ pc # "setup_begin") => pc = "setup_restart" ]_vars

\* esp_camera_init has failed and the restart is next
C16_Witness ==
    /\ pc = "setup_restart"
    /\ ~camOk

\* ------------------------------------------------------------------ C17
\* C17: lastCapture changes only in the step of loop() that starts a cycle;
\* whatever the cycle and reconnectMQTT() do afterwards, lastCapture stays the
\* time at which the last cycle started (the clock equals lastCapture plus
\* the time elapsed since, modulo the clock period).
C17_OnlyTickWritesLastCapture ==
    /\ [][ lastCapture' # lastCapture => CycleStart ]_vars
    /\ []((cycles >= 1 /\ sinceLast < Wrap) => clock = (lastCapture + sinceLast) % Wrap)

\* the next interval check after a cycle that reconnected and failed to publish
C17_Witness ==
    /\ pc = "loop_tick"
    /\ lastPub = "fail"
    /\ rcCalls = 1
    /\ sinceLast > 0
    /\ sinceLast < Wrap

\* ------------------------------------------------------------------ C18
\* C18: a cycle calls esp_camera_fb_get() once and mqtt.publish() at most
\* once; publish is called only on the frame acquired in this cycle, before
\* it is returned; whatever publish reports, the next steps are the release
\* and the return to loop().
C18_NothingRetried ==
    /\ [](acqCalls <= 1 /\ pubCount <= 1)
    /\ [](pc \in {"cas_check", "cas_publish", "cas_release"} => acqCalls = 1)
    /\ [](pc = "cas_publish" => (pubCount = 0 /\ acqCount = 1 /\ relCount = 0 /\ fbLive = 1))
    /\ [](pc = "cas_release" => (pubCount = 1 /\ lastPub # "none"))
    /\ [][ (pc = "cas_publish" /\ pc' # pc) => pc' = "cas_release" ]_vars
    /\ [][ (pc = "cas_release" /\ pc' # pc) => (pc' = "loop_delay" /\ fbLive' = 0) ]_vars

\* a cycle whose only publish failed has ended, with no reconnect in it
C18_Witness ==
    /\ pc = "loop_delay"
    /\ lastPub = "fail"
    /\ pubCount = 1
    /\ relCount = 1
    /\ rcCalls = 0

\* ------------------------------------------------------------------ C20
\* C20: at an interval check made less than one clock period after the last
\* cycle started, a cycle is started exactly when the time truly elapsed
\* since then is at least captureInterval, whether or not millis() wrapped
\* in between.
C20_WrapSafeCheck ==
    [][ (TickStep /\ cycles >= 1 /\ sinceLast < Wrap) =>
            ((pc' = "cas_led") <=> (sinceLast >= captureInterval)) ]_vars

\* millis() wrapped since the last cycle started and the check, made too early, started nothing
C20_Witness ==
    /\ pc = "loop_delay"
    /\ iterLog = <<"connected", "service", "check">>
    /\ cycles >= 1
    /\ clock < lastCapture
    /\ sinceLast < captureInterval

\* ------------------------------------------------------------------ C14
\* a cycle has ended in a capture failure or a publish failure
CycleFailed == pc = "loop_delay" /\ (AcqNull \/ lastPub = "fail")

C19_CycleCompletes ==
    /\ (pc = "cas_check") ~> (pc = "loop_delay" /\ fbLive = 0 /\ led = "LOW" /\ relCount = 1)
    /\ [](AtLoop => fbLive = 0)

\* the cycle is blocked in reconnectMQTT() with the frame held
C19_Witness ==
    /\ pc = "rc_delay"
    /\ caller = "cycle"
    /\ fbLive = 1
    /\ fails = MaxFails

====
